---- MODULE Spec2Model ----
(***************************************************************************)
(* A model of rhdl's compilation driver (rhdl-core/src/compiler/driver.rs), *)
(* of its path / bit-layout engine (rhdl-core/src/path.rs) and of the       *)
(* conversion of Kinds to inference types (rhdl-core/src/ty.rs).            *)
(*                                                                         *)
(* Spec      : compile_design, run on every small kernel call graph.       *)
(* FairSpec  : Spec with the fairness a sequential program has.            *)
(* PathSpec  : bit_range and path_star applied to bounded Kinds and Paths. *)
(* RangeSpec : bit_range alone, StarSpec: path_star alone, on the same     *)
(*             Kinds and Paths.                                            *)
(* TySpec    : Ty::from applied to the bounded Kinds.                      *)
(* PrefixSpec: join, is_prefix_of and strip_prefix applied to two Paths.   *)
(* BitsSpec  : set_bit and get_bit called on a Bits<N> value               *)
(*             (rhdl-bits/src/bits.rs).                                     *)
(* VerilogSpec: VerilogTranslator::translate (rhdl-x/src/verilog.rs) on    *)
(*             circuits of bounded port widths.                            *)
(***************************************************************************)
EXTENDS Integers, Sequences, FiniteSets, TLC

VARIABLES
    kernels,          \* fn_id -> the externals list the kernel's Object carries
    top,              \* fn_id of the kernel handed to compile_design
    pc,               \* position inside compile_design
    design,           \* the Module under construction: [objects, top]
    object_count,     \* compile_design's local of that name
    external_kernels, \* elaborate_design's local Vec, the part not yet visited
    result,           \* what compile_design returned: [status, error]
    invocations,      \* history: fn_id -> number of compile_kernel calls
    scans,            \* history: number of elaborate_design calls started
    last_compile,     \* history: the return value of the latest compile_kernel
    kind,             \* PathSpec: the Kind handed to bit_range / path_star
    path,             \* PathSpec: the Path handed to bit_range / path_star
    op,               \* PathSpec: which function was applied last
    range_result,     \* PathSpec: what bit_range returned
    star_result,      \* PathSpec: what path_star returned
    ty_result,        \* TySpec: what Ty::from(kind) did
    other,            \* PrefixSpec: the Path argument of the Path helpers
    helper_result,    \* PrefixSpec: what the Path helper returned
    width_n,          \* BitsSpec: the N of the Bits<N> value
    raw,              \* BitsSpec: the u128 field of the Bits<N> value
    bits_call,        \* BitsSpec: the latest set_bit / get_bit call
    circuit,          \* VerilogSpec: the Kinds C::I, C::O, C::D, C::Q
    verilog           \* VerilogSpec: the declarations and binds translate wrote

driver_vars == <<kernels, top, pc, design, object_count, external_kernels,
                 result, invocations, scans, last_compile>>
bits_vars == <<width_n, raw, bits_call>>
verilog_vars == <<circuit, verilog>>
path_vars == <<kind, path, op, range_result, star_result, ty_result, other,
               helper_result, bits_vars, verilog_vars>>
vars == <<driver_vars, path_vars>>

----------------------------------------------------------------------------
(* Bounds of the model *)

\* widest bit vector among the leaf Kinds
MaxWidth == 2
\* longest Array, and the largest Index a Path holds
MaxLen == 2
\* longest Path
MaxPathLen == 2

\* number of distinct function identities (kernels) in the program
NumFns == 3
\* total number of external references (call sites) over all kernels
MaxCalls == 3

FnIds == 1..NumFns

----------------------------------------------------------------------------
(* compile_kernel *)

\* the number of optimisation rounds, `for _pass in 0..2`
OptRounds == 2

\* a loop body that also type-checks at the end of each round
RoundPassesChecked == <<"RemoveExtraRegistersPass", "RemoveUnneededMuxesPass",
                        "RemoveExtraRegistersPass", "RemoveUnusedLiterals",
                        "PreCastLiterals", "RemoveUselessCastsPass",
                        "TypeCheckPass">>

\* the body of the optimisation loop
RoundPasses == <<"RemoveExtraRegistersPass", "RemoveUnneededMuxesPass",
                 "RemoveExtraRegistersPass", "RemoveUnusedLiterals",
                 "PreCastLiterals", "RemoveUselessCastsPass">>

RECURSIVE Rounds(_)
Rounds(n) == IF n = 0 THEN <<>> ELSE RoundPasses \o Rounds(n - 1)

\* the phases before the optimisation loop, in statement order
FrontPhases == <<"assign_node_ids", "infer", "render_ast_to_string",
                 "check_inference", "compile">>

\* the verification passes after the loop
VerifyPasses == <<"TypeCheckPass", "DataFlowCheckPass">>

\* every fallible step of compile_kernel, in execution order
Pipeline == FrontPhases \o Rounds(OptRounds) \o VerifyPasses

\* where a compile_kernel call fails: 0 = nowhere, i = at the i-th step
FailPoints == 0..Len(Pipeline)

NoError == [fn_id |-> 0, phase |-> "none"]
NoObject == [fn_id |-> 0, externals |-> <<>>, passes |-> <<>>]

\* a Kernel value: its identity and what it calls
Kernel(f) == [fn_id |-> f, externals |-> kernels[f]]

\* compile_kernel with the data-flow check left out
compile_kernel_no_flow_check(kernel, fail) ==
    LET steps == SubSeq(Pipeline, 1, Len(Pipeline) - 1)
        ran == IF fail = 0 \/ fail > Len(steps) THEN Len(steps) ELSE fail
        log == SubSeq(steps, 1, ran)
    IN  IF fail = 0 \/ fail > Len(steps)
        THEN [status |-> "Ok",
              obj |-> [fn_id |-> kernel.fn_id,
                       externals |-> kernel.externals,
                       passes |-> SubSeq(log, Len(FrontPhases) + 1, ran)],
              error |-> NoError,
              log |-> log]
        ELSE [status |-> IF steps[fail] = "render_ast_to_string"
                         THEN "Panic" ELSE "Err",
              obj |-> NoObject,
              error |-> [fn_id |-> kernel.fn_id, phase |-> steps[fail]],
              log |-> log]

\* compile_kernel that notices a failed step only after the step behind it ran
compile_kernel_late_exit(kernel, fail) ==
    LET ran == IF fail = 0 THEN Len(Pipeline)
               ELSE IF fail < Len(Pipeline) THEN fail + 1 ELSE fail
        log == SubSeq(Pipeline, 1, ran)
    IN  IF fail = 0
        THEN [status |-> "Ok",
              obj |-> [fn_id |-> kernel.fn_id,
                       externals |-> kernel.externals,
                       passes |-> SubSeq(log, Len(FrontPhases) + 1, ran)],
              error |-> NoError,
              log |-> log]
        ELSE [status |-> IF Pipeline[fail] = "render_ast_to_string"
                         THEN "Panic" ELSE "Err",
              obj |-> NoObject,
              error |-> [fn_id |-> kernel.fn_id, phase |-> Pipeline[fail]],
              log |-> log]

\* compile_kernel(kernel) where step `fail` (if any) returns an error.
\* Every step but render_ast_to_string is followed by `?`; that one by unwrap().
\* log = the steps that ran; obj.passes = the passes the Object went through.
compile_kernel(kernel, fail) ==
    LET ran == IF fail = 0 THEN Len(Pipeline) ELSE fail
        log == SubSeq(Pipeline, 1, ran)
    IN  IF fail = 0
        THEN [status |-> "Ok",
              obj |-> [fn_id |-> kernel.fn_id,
                       externals |-> kernel.externals,
                       passes |-> SubSeq(log, Len(FrontPhases) + 1, ran)],
              error |-> NoError,
              log |-> log]
        ELSE [status |-> IF Pipeline[fail] = "render_ast_to_string"
                         THEN "Panic" ELSE "Err",
              obj |-> NoObject,
              error |-> [fn_id |-> kernel.fn_id, phase |-> Pipeline[fail]],
              log |-> log]

NoCompile == [status |-> "None", obj |-> NoObject, error |-> NoError, log |-> <<>>]

----------------------------------------------------------------------------
(* Module and the external references *)

KernelRef(f) == [code |-> "Kernel", fn_id |-> f]
ExternRef == [code |-> "Extern", fn_id |-> 0]
Refs == {KernelRef(f) : f \in FnIds} \cup {ExternRef}

EmptyObjects == [f \in {} |-> NoObject]
NoModule == [objects |-> EmptyObjects, top |-> 0]

RECURSIVE SeqsOfLen(_, _)
SeqsOfLen(S, n) ==
    IF n = 0 THEN {<<>>}
    ELSE {Append(s, x) : s \in SeqsOfLen(S, n - 1), x \in S}

SeqsUpTo(S, n) == UNION {SeqsOfLen(S, i) : i \in 0..n}

\* every assignment of externals lists to the kernels 1..n that uses at most
\* `budget` references in total
RECURSIVE CallGraphs(_, _)
CallGraphs(n, budget) ==
    IF n = 0 THEN {<<>>}
    ELSE UNION {{Append(g, s) : g \in CallGraphs(n - 1, budget - Len(s))}
                : s \in SeqsUpTo(Refs, budget)}

\* the orders in which a HashMap's values() may be visited
Orders(S) == {o \in [1..Cardinality(S) -> S] : \A i, j \in DOMAIN o : i # j => o[i] # o[j]}

\* a filter that stops after the first kernel it finds
RECURSIVE FilterKernelsFirstOnly(_)
FilterKernelsFirstOnly(refs) ==
    IF refs = <<>> THEN <<>>
    ELSE IF Head(refs).code = "Kernel" THEN <<Head(refs).fn_id>>
    ELSE FilterKernelsFirstOnly(Tail(refs))

\* a filter that lets every reference through, whatever its code
FilterNothing(refs) == [i \in DOMAIN refs |-> refs[i].fn_id]

\* .filter_map(|func| if let Kernel(kernel) = &func.code {Some(kernel)} else {None})
RECURSIVE FilterKernels(_)
FilterKernels(refs) ==
    IF refs = <<>> THEN <<>>
    ELSE (IF Head(refs).code = "Kernel" THEN <<Head(refs).fn_id>> ELSE <<>>)
         \o FilterKernels(Tail(refs))

\* design.objects.values().flat_map(|obj| obj.externals.iter()) visited in `order`
RECURSIVE FlatExternals(_, _)
FlatExternals(objects, order) ==
    IF order = <<>> THEN <<>>
    ELSE objects[Head(order)].externals \o FlatExternals(objects, Tail(order))

\* a collection that looks at the externals of the first object visited only
CollectFromFirstObject(objects, order) ==
    IF order = <<>> THEN <<>> ELSE FilterKernels(objects[Head(order)].externals)

\* the Vec elaborate_design collects, as the fn_ids of the kernels in it
CollectExternalKernels(objects, order) == FilterKernels(FlatExternals(objects, order))

----------------------------------------------------------------------------
(* Kind: the concrete value shapes that path.rs navigates *)

make_bits(w) == [tag |-> "Bits", width |-> w]
make_signed(w) == [tag |-> "Signed", width |-> w]
Empty == [tag |-> "Empty"]
make_tuple(elements) == [tag |-> "Tuple", elements |-> elements]
make_array(base, size) == [tag |-> "Array", base |-> base, size |-> size]
make_field(name, k) == [name |-> name, kind |-> k]
make_struct(fields) == [tag |-> "Struct", fields |-> fields]
make_variant(name, discriminant, k) ==
    [name |-> name, discriminant |-> discriminant, kind |-> k]
make_discriminant_layout(width, alignment, ty) ==
    [width |-> width, alignment |-> alignment, ty |-> ty]
make_enum(variants, layout) ==
    [tag |-> "Enum", variants |-> variants, discriminant_layout |-> layout]

Max(a, b) == IF a >= b THEN a ELSE b

\* Kind::bits: array = length * element width; struct and tuple = sum of the
\* members' widths; enum = discriminant width + widest payload
RECURSIVE bits(_), SumBits(_), MaxBits(_)
bits(k) ==
    CASE k.tag = "Bits" -> k.width
      [] k.tag = "Signed" -> k.width
      [] k.tag = "Empty" -> 0
      [] k.tag = "Tuple" -> SumBits(k.elements)
      [] k.tag = "Array" -> k.size * bits(k.base)
      [] k.tag = "Struct" -> SumBits([i \in DOMAIN k.fields |-> k.fields[i].kind])
      [] k.tag = "Enum" ->
            k.discriminant_layout.width
            + MaxBits([i \in DOMAIN k.variants |-> k.variants[i].kind])

\* .iter().map(|e| e.bits()).sum::<usize>()
SumBits(ks) == IF ks = <<>> THEN 0 ELSE bits(Head(ks)) + SumBits(Tail(ks))

\* .iter().map(|e| e.bits()).max().unwrap_or(0)
MaxBits(ks) == IF ks = <<>> THEN 0 ELSE Max(bits(Head(ks)), MaxBits(Tail(ks)))

----------------------------------------------------------------------------
(* Ty: the inference types, and the conversion From<Kind> for Ty *)

ty_bits(width) == [tag |-> "Const", bits |-> [tag |-> "Unsigned", width |-> width]]
ty_empty == [tag |-> "Const", bits |-> [tag |-> "Empty"]]

TyOk(ty) == [status |-> "Ok", ty |-> ty]
TyPanic == [status |-> "Panic", ty |-> ty_empty]
NoTy == [status |-> "None", ty |-> ty_empty]

\* the last position of `name` in a list of fields (BTreeMap::collect keeps
\* the last value inserted under a key)
LastNamed(fields, name) ==
    CHOOSE j \in DOMAIN fields :
        /\ fields[j].name = name
        /\ \A i \in DOMAIN fields : fields[i].name = name => i <= j

\* impl From<Kind> for Ty: Bits, Empty, Struct and Tuple convert, member by
\* member; every other Kind reaches unimplemented!()
RECURSIVE ty_from_kind(_)
ty_from_kind(value) ==
    CASE value.tag = "Bits" -> TyOk(ty_bits(value.width))
      [] value.tag = "Empty" -> TyOk(ty_empty)
      [] value.tag = "Struct" ->
            LET members == [i \in DOMAIN value.fields |->
                               ty_from_kind(value.fields[i].kind)]
                names == {value.fields[i].name : i \in DOMAIN value.fields}
            IN  IF \E i \in DOMAIN members : members[i].status = "Panic"
                THEN TyPanic
                ELSE TyOk([tag |-> "Struct",
                           name |-> "Foo",
                           fields |-> [n \in names |->
                                         members[LastNamed(value.fields, n)].ty]])
      [] value.tag = "Tuple" ->
            LET members == [i \in DOMAIN value.elements |->
                               ty_from_kind(value.elements[i])]
            IN  IF \E i \in DOMAIN members : members[i].status = "Panic"
                THEN TyPanic
                ELSE TyOk([tag |-> "Tuple",
                           elements |-> [i \in DOMAIN members |-> members[i].ty]])
      [] OTHER -> TyPanic

----------------------------------------------------------------------------
(* Bits<N>: a bit vector of N bits kept in a u128 *)

\* the number of bits of the machine word that holds a Bits<N> value
WordBits == 4

RECURSIVE Pow2(_)
Pow2(n) == IF n = 0 THEN 1 ELSE 2 * Pow2(n - 1)

WordMax == Pow2(WordBits) - 1

\* `a << n` on the word, for n < WordBits
Shl(a, n) == (a * Pow2(n)) % Pow2(WordBits)

\* `!a` on the word
BitNot(a) == WordMax - a

\* `a & b` and `a | b` on the word, bit by bit from the lowest
RECURSIVE BitAnd(_, _), BitOr(_, _)
BitAnd(a, b) ==
    IF a = 0 \/ b = 0 THEN 0
    ELSE (a % 2) * (b % 2) + 2 * BitAnd(a \div 2, b \div 2)

BitOr(a, b) ==
    IF a = 0 THEN b
    ELSE IF b = 0 THEN a
    ELSE (IF a % 2 = 1 \/ b % 2 = 1 THEN 1 ELSE 0) + 2 * BitOr(a \div 2, b \div 2)

\* Bits::<N>::mask()
mask(N) == IF N < WordBits THEN Shl(1, N) - 1 ELSE WordMax

\* the outcome of a call: the new field, the bool returned, or the failed assert
BitsReturn(value, flag) == [panic |-> FALSE, raw |-> value, flag |-> flag]
BitsPanic(value) == [panic |-> TRUE, raw |-> value, flag |-> FALSE]

\* a set_bit that clears the bit with `self.0 &= 1 << bit`
set_bit_and_only(N, self, bit, value) ==
    IF ~(bit < N) THEN BitsPanic(self)
    ELSE IF value
    THEN BitsReturn(BitOr(self, Shl(1, bit)), FALSE)
    ELSE BitsReturn(BitAnd(self, Shl(1, bit)), FALSE)

\* Bits::set_bit
set_bit(N, self, bit, value) ==
    IF ~(bit < N) THEN BitsPanic(self)
    ELSE IF value
    THEN BitsReturn(BitOr(self, Shl(1, bit)), FALSE)
    ELSE BitsReturn(BitAnd(self, BitNot(Shl(1, bit))), FALSE)

\* Bits::get_bit
get_bit(N, self, bit) ==
    IF ~(bit < N) THEN BitsPanic(self)
    ELSE BitsReturn(self, BitAnd(self, Shl(1, bit)) # 0)

NoCall == [name |-> "none", bit |-> 0, value |-> FALSE, before |-> 0,
           panic |-> FALSE, flag |-> FALSE]

BitsIdle ==
    /\ width_n = 1
    /\ raw = 0
    /\ bits_call = NoCall

----------------------------------------------------------------------------
(* Path and PathElement *)

Index(i) == [tag |-> "Index", index |-> i]
Field(name) == [tag |-> "Field", name |-> name]
EnumDiscriminant == [tag |-> "EnumDiscriminant"]
EnumPayload(name) == [tag |-> "EnumPayload", name |-> name]
EnumPayloadByValue(d) == [tag |-> "EnumPayloadByValue", discriminant |-> d]
DynamicIndex(slot) == [tag |-> "DynamicIndex", slot |-> slot]

\* Path::any_dynamic
any_dynamic(p) == \E i \in DOMAIN p : p[i].tag = "DynamicIndex"

\* Path::join
join(p, q) == p \o q

\* the zip comparison alone, which stops at the end of the shorter path
is_prefix_of_zip_only(p, q) ==
    \A i \in 1..(IF Len(p) <= Len(q) THEN Len(p) ELSE Len(q)) : p[i] = q[i]

\* Path::is_prefix_of: self.len() <= other.len() && zip(..).all(|(a, b)| a == b)
is_prefix_of(p, q) ==
    /\ Len(p) <= Len(q)
    /\ \A i \in 1..Len(p) : p[i] = q[i]

\* Path::strip_prefix
strip_prefix(p, prefix) ==
    IF ~is_prefix_of(prefix, p)
    THEN [ok |-> FALSE, path |-> <<>>]
    ELSE [ok |-> TRUE, path |-> SubSeq(p, Len(prefix) + 1, Len(p))]

\* what PrefixSpec records of a helper's return value: the Path (join,
\* strip_prefix), the bool (is_prefix_of), Ok or Err (strip_prefix)
HelperValue(ok, p, flag) == [ok |-> ok, path |-> p, flag |-> flag]
NoHelper == HelperValue(FALSE, <<>>, FALSE)

----------------------------------------------------------------------------
(* bit_range *)

RangeOk(s, e, k) == [ok |-> TRUE, start |-> s, end |-> e, kind |-> k, err |-> "none"]
RangeErr(msg) == [ok |-> FALSE, start |-> 0, end |-> 0, kind |-> Empty, err |-> msg]

\* the kinds of a Struct's fields, in declaration order
FieldKinds(fields) == [j \in DOMAIN fields |-> fields[j].kind]

\* position (1-based) of the first item of `items` with items[j].name = name;
\* 0 when there is none
FirstNamed(items, name) ==
    IF \E j \in DOMAIN items : items[j].name = name
    THEN CHOOSE j \in DOMAIN items :
            /\ items[j].name = name
            /\ \A h \in 1..(j - 1) : items[h].name # name
    ELSE 0

\* position (1-based) of the first variant with that discriminant; 0 when none
FirstWithDiscriminant(variants, disc) ==
    IF \E j \in DOMAIN variants : variants[j].discriminant = disc
    THEN CHOOSE j \in DOMAIN variants :
            /\ variants[j].discriminant = disc
            /\ \A h \in 1..(j - 1) : variants[h].discriminant # disc
    ELSE 0

\* Index(i) whose Array arm tests `i > size`
index_step_lax(start, end, k, i) ==
    CASE k.tag = "Array" ->
            IF i > k.size
            THEN RangeErr("Array index out of bounds")
            ELSE RangeOk(start + i * bits(k.base),
                         start + (i + 1) * bits(k.base), k.base)
      [] k.tag = "Tuple" ->
            IF i >= Len(k.elements)
            THEN RangeErr("Tuple index out of bounds")
            ELSE LET offset == SumBits(SubSeq(k.elements, 1, i))
                     size == bits(k.elements[i + 1])
                 IN  RangeOk(start + offset, start + offset + size, k.elements[i + 1])
      [] k.tag = "Struct" ->
            IF i >= Len(k.fields)
            THEN RangeErr("Struct index out of bounds")
            ELSE LET offset == SumBits(SubSeq(FieldKinds(k.fields), 1, i))
                     size == bits(k.fields[i + 1].kind)
                 IN  RangeOk(start + offset, start + offset + size, k.fields[i + 1].kind)
      [] OTHER -> RangeErr("Indexing non-indexable type")

\* Index(i) that places array element i at bit i of the array
index_step_unit_stride(start, end, k, i) ==
    IF k.tag = "Array"
    THEN IF i >= k.size
         THEN RangeErr("Array index out of bounds")
         ELSE RangeOk(start + i, start + i + bits(k.base), k.base)
    ELSE index_step_lax(start, end, k, i)

\* PathElement::Index(i)
index_step(start, end, k, i) ==
    CASE k.tag = "Array" ->
            IF i >= k.size
            THEN RangeErr("Array index out of bounds")
            ELSE RangeOk(start + i * bits(k.base),
                         start + (i + 1) * bits(k.base), k.base)
      [] k.tag = "Tuple" ->
            IF i >= Len(k.elements)
            THEN RangeErr("Tuple index out of bounds")
            ELSE LET offset == SumBits(SubSeq(k.elements, 1, i))
                     size == bits(k.elements[i + 1])
                 IN  RangeOk(start + offset, start + offset + size, k.elements[i + 1])
      [] k.tag = "Struct" ->
            IF i >= Len(k.fields)
            THEN RangeErr("Struct index out of bounds")
            ELSE LET offset == SumBits(SubSeq(FieldKinds(k.fields), 1, i))
                     size == bits(k.fields[i + 1].kind)
                 IN  RangeOk(start + offset, start + offset + size, k.fields[i + 1].kind)
      [] OTHER -> RangeErr("Indexing non-indexable type")

\* Field(field) whose offset also counts the named field (take_while on <=)
field_step_inclusive(start, end, k, name) ==
    IF k.tag = "Struct"
    THEN LET j == FirstNamed(k.fields, name) IN
         IF j = 0
         THEN RangeErr("Field not found")
         ELSE LET offset == SumBits(SubSeq(FieldKinds(k.fields), 1, j))
                  size == bits(k.fields[j].kind)
              IN  RangeOk(start + offset, start + offset + size, k.fields[j].kind)
    ELSE RangeErr("Field indexing not allowed on this type")

\* PathElement::Field(field)
field_step(start, end, k, name) ==
    IF k.tag = "Struct"
    THEN LET j == FirstNamed(k.fields, name) IN
         IF j = 0
         THEN RangeErr("Field not found")
         ELSE LET offset == SumBits(SubSeq(FieldKinds(k.fields), 1, j - 1))
                  size == bits(k.fields[j].kind)
              IN  RangeOk(start + offset, start + offset + size, k.fields[j].kind)
    ELSE RangeErr("Field indexing not allowed on this type")

\* EnumDiscriminant that takes the low bits whatever the alignment
discriminant_step_low(start, end, k) ==
    IF k.tag = "Enum"
    THEN LET layout == k.discriminant_layout
             result_kind == IF layout.ty = "Signed"
                            THEN make_signed(layout.width)
                            ELSE make_bits(layout.width)
         IN  RangeOk(start, start + layout.width, result_kind)
    ELSE RangeErr("Enum discriminant not valid for non-enum types")

\* PathElement::EnumDiscriminant
discriminant_step(start, end, k) ==
    IF k.tag = "Enum"
    THEN LET layout == k.discriminant_layout
             result_kind == IF layout.ty = "Signed"
                            THEN make_signed(layout.width)
                            ELSE make_bits(layout.width)
         IN  IF layout.alignment = "Lsb"
             THEN RangeOk(start, start + layout.width, result_kind)
             ELSE RangeOk(end - layout.width, end, result_kind)
    ELSE RangeErr("Enum discriminant not valid for non-enum types")

\* a payload range that starts at the start of the enum under both alignments
payload_range_overlapping(start, end, k, j) ==
    LET field == k.variants[j].kind
    IN  RangeOk(start, start + bits(field), field)

\* a payload range whose Lsb end leaves the discriminant width out
payload_range_short(start, end, k, j) ==
    LET field == k.variants[j].kind
        width == k.discriminant_layout.width
    IN  IF k.discriminant_layout.alignment = "Lsb"
        THEN RangeOk(start + width, start + bits(field), field)
        ELSE RangeOk(start, start + bits(field), field)

\* the range both payload elements compute once the variant is found
payload_range(start, end, k, j) ==
    LET field == k.variants[j].kind
        width == k.discriminant_layout.width
    IN  IF k.discriminant_layout.alignment = "Lsb"
        THEN RangeOk(start + width, start + width + bits(field), field)
        ELSE RangeOk(start, start + bits(field), field)

\* PathElement::EnumPayload(name)
payload_step(start, end, k, name) ==
    IF k.tag = "Enum"
    THEN LET j == FirstNamed(k.variants, name) IN
         IF j = 0 THEN RangeErr("Enum payload not found")
         ELSE payload_range(start, end, k, j)
    ELSE RangeErr("Enum payload not valid for non-enum types")

\* EnumPayloadByValue(disc) that falls back to the first variant on a miss
payload_by_value_step_default(start, end, k, disc) ==
    IF k.tag = "Enum"
    THEN LET j == FirstWithDiscriminant(k.variants, disc) IN
         IF j = 0 THEN payload_range(start, end, k, 1)
         ELSE payload_range(start, end, k, j)
    ELSE RangeErr("Enum payload not valid for non-enum types")

\* PathElement::EnumPayloadByValue(disc)
payload_by_value_step(start, end, k, disc) ==
    IF k.tag = "Enum"
    THEN LET j == FirstWithDiscriminant(k.variants, disc) IN
         IF j = 0 THEN RangeErr("Enum payload not found")
         ELSE payload_range(start, end, k, j)
    ELSE RangeErr("Enum payload not valid for non-enum types")

\* a DynamicIndex resolved as if it were Index(0)
dynamic_step_as_first(start, end, k, slot) == index_step(start, end, k, 0)

\* PathElement::DynamicIndex(_slot)
dynamic_step(start, end, k, slot) ==
    RangeErr("Dynamic indices must be resolved before calling bit_range")

\* one turn of `for p in &path.elements { match p {..} }`
path_step(start, end, k, p) ==
    CASE p.tag = "Index" -> index_step(start, end, k, p.index)
      [] p.tag = "Field" -> field_step(start, end, k, p.name)
      [] p.tag = "EnumDiscriminant" -> discriminant_step(start, end, k)
      [] p.tag = "EnumPayload" -> payload_step(start, end, k, p.name)
      [] p.tag = "EnumPayloadByValue" -> payload_by_value_step(start, end, k, p.discriminant)
      [] p.tag = "DynamicIndex" -> dynamic_step(start, end, k, p.slot)

\* a loop that forgets the running range and narrows 0..bits(kind) each time
RECURSIVE bit_range_walk_from_zero(_, _)
bit_range_walk_from_zero(r, p) ==
    IF p = <<>> THEN r
    ELSE LET s == path_step(0, bits(r.kind), r.kind, Head(p)) IN
         IF s.ok THEN bit_range_walk_from_zero(s, Tail(p)) ELSE s

\* the for loop of bit_range from the running (range, kind) pair r
RECURSIVE bit_range_walk(_, _)
bit_range_walk(r, p) ==
    IF p = <<>> THEN r
    ELSE LET s == path_step(r.start, r.end, r.kind, Head(p)) IN
         IF s.ok THEN bit_range_walk(s, Tail(p)) ELSE s

bit_range(k, p) == bit_range_walk(RangeOk(0, bits(k), k), p)

\* a sub_kind that hands back the Kind it was given when the path fails
sub_kind_or_same(k, p) ==
    LET r == bit_range(k, p)
    IN  [ok |-> TRUE, kind |-> IF r.ok THEN r.kind ELSE k, err |-> "none"]

\* sub_kind: bit_range(kind, path).map(|(_, kind)| kind)
sub_kind(k, p) ==
    LET r == bit_range(k, p) IN [ok |-> r.ok, kind |-> r.kind, err |-> r.err]

----------------------------------------------------------------------------
(* path_star *)

StarOk(paths) == [ok |-> TRUE, paths |-> paths, err |-> "none"]
StarErr(msg) == [ok |-> FALSE, paths |-> <<>>, err |-> msg]

\* `1..array.size`
dynamic_indices_from_one(array) == [j \in 1..(array.size - 1) |-> j]

\* `0..array.size`, the indices the DynamicIndex arm iterates over
dynamic_indices(array) == [j \in 1..array.size |-> j - 1]

\* let mut path = path.clone(); path.elements[0] = PathElement::Index(i);
substitute_first(p, i) == [p EXCEPT ![1] = Index(i)]

\* a map that returns the expanded suffixes without their prefix
reprefix_dropped(prefix_path, suffix_star) == suffix_star

\* .map(|suffix| prefix_path.clone().join(&suffix)).collect()
reprefix(prefix_path, suffix_star) ==
    [j \in DOMAIN suffix_star |-> join(prefix_path, suffix_star[j])]

RECURSIVE path_star(_, _), star_loop(_, _, _, _)
path_star(k, p) ==
    IF ~any_dynamic(p) THEN StarOk(<<p>>)
    ELSE IF Head(p).tag = "DynamicIndex"
    THEN IF k.tag # "Array"
         THEN StarErr("Dynamic index on non-array type")
         ELSE star_loop(k, p, dynamic_indices(k), <<>>)
    ELSE LET prefix_path == <<Head(p)>>
             prefix_kind == sub_kind(k, prefix_path)
         IN  IF ~prefix_kind.ok THEN StarErr(prefix_kind.err)
             ELSE LET suffix_path == strip_prefix(p, prefix_path)
                      suffix_star == path_star(prefix_kind.kind, suffix_path.path)
                  IN  IF ~suffix_star.ok THEN suffix_star
                      ELSE StarOk(reprefix(prefix_path, suffix_star.paths))

\* a loop that puts each expansion in front of the ones collected before it
RECURSIVE star_loop_prepend(_, _, _, _)
star_loop_prepend(k, p, indices, paths) ==
    IF indices = <<>> THEN StarOk(paths)
    ELSE LET sub == path_star(k, substitute_first(p, Head(indices))) IN
         IF ~sub.ok THEN sub
         ELSE star_loop_prepend(k, p, Tail(indices), sub.paths \o paths)

\* a loop that leaves out the indices whose expansion failed
RECURSIVE star_loop_skip_errors(_, _, _, _)
star_loop_skip_errors(k, p, indices, paths) ==
    IF indices = <<>> THEN StarOk(paths)
    ELSE LET sub == path_star(k, substitute_first(p, Head(indices))) IN
         star_loop_skip_errors(k, p, Tail(indices),
                               IF sub.ok THEN paths \o sub.paths ELSE paths)

\* for i in 0..array.size { ..; paths.extend(path_star(kind, &path)?); }
star_loop(k, p, indices, paths) ==
    IF indices = <<>> THEN StarOk(paths)
    ELSE LET sub == path_star(k, substitute_first(p, Head(indices))) IN
         IF ~sub.ok THEN sub
         ELSE star_loop(k, p, Tail(indices), paths \o sub.paths)

\* an entry test that never finds the entry occupied
VacantAlways(objects, k) == TRUE

\* if let Entry::Vacant(e) = design.objects.entry(kernel.inner().fn_id)
Vacant(objects, k) == k \notin DOMAIN objects

\* a loop test that never sees the fixpoint
GrewAlways(objects, count) == TRUE

\* the negation of `design.objects.len() == object_count`
Grew(objects, count) == Cardinality(DOMAIN objects) # count

\* no call graph over NumFns kernels needs more scans than this; the guard of
\* Scan keeps the scan counter finite
ScanCap == NumFns + 1

----------------------------------------------------------------------------
(* VerilogTranslator::translate: the wires of the generated module *)

\* usize::saturating_sub
saturating_sub(a, b) == IF a >= b THEN a - b ELSE 0

\* the text "[msb:lsb]" of a declaration or of a part-select
PartSelect(msb, lsb) == [msb |-> msb, lsb |-> lsb]

\* the Kind of a port that is `w` bits wide
PortKind(w) == IF w = 0 THEN Empty ELSE make_bits(w)

\* the update kernel returns the tuple (output, d)
update_output_kind(c) == make_tuple(<<c.o, c.d>>)

\* let d_bind = format!("assign d = od[{}:{}];", C::D::bits().saturating_sub(1), outputs);
d_bind(c) == PartSelect(saturating_sub(bits(c.d), 1), bits(c.o))

\* the module declaration, the wire declarations and the two binds that
\* translate formats into the module text
translate(c) ==
    LET input_bits == bits(c.i)
        outputs == bits(c.o)
        o_d_bits == bits(c.o) + bits(c.d)
    IN  [written |-> TRUE,
         module_i |-> PartSelect(saturating_sub(input_bits, 1), 0),
         module_o |-> PartSelect(saturating_sub(outputs, 1), 0),
         od_decl |-> PartSelect(saturating_sub(o_d_bits, 1), 0),
         d_decl |-> PartSelect(saturating_sub(bits(c.d), 1), 0),
         q_decl |-> PartSelect(saturating_sub(bits(c.q), 1), 0),
         o_bind |-> PartSelect(saturating_sub(outputs, 1), 0),
         d_bind |-> d_bind(c)]

NoVerilog ==
    [written |-> FALSE,
     module_i |-> PartSelect(0, 0), module_o |-> PartSelect(0, 0),
     od_decl |-> PartSelect(0, 0), d_decl |-> PartSelect(0, 0),
     q_decl |-> PartSelect(0, 0), o_bind |-> PartSelect(0, 0),
     d_bind |-> PartSelect(0, 0)]

VerilogIdle ==
    /\ circuit = [i |-> Empty, o |-> Empty, d |-> Empty, q |-> Empty]
    /\ verilog = NoVerilog

----------------------------------------------------------------------------
(* compile_design *)

PathIdle ==
    /\ kind = Empty
    /\ path = <<>>
    /\ op = "none"
    /\ range_result = RangeErr("not called")
    /\ star_result = StarErr("not called")
    /\ ty_result = NoTy
    /\ other = <<>>
    /\ helper_result = NoHelper
    /\ BitsIdle
    /\ VerilogIdle

Init ==
    /\ kernels \in CallGraphs(NumFns, MaxCalls)
    \* identities are opaque and CallGraphs is closed under renaming them, so
    \* every (graph, top) pair is a renaming of one with top = 1
    /\ top = 1
    /\ pc = "start"
    /\ design = NoModule
    /\ object_count = 0
    /\ external_kernels = <<>>
    /\ result = [status |-> "None", error |-> NoError]
    /\ invocations = [f \in FnIds |-> 0]
    /\ scans = 0
    /\ last_compile = NoCompile
    /\ PathIdle

\* a `?` or unwrap() that leaves compile_design: the locals are dropped
Abort(r) ==
    /\ pc' = IF r.status = "Panic" THEN "panicked" ELSE "failed"
    /\ result' = [status |-> r.status, error |-> r.error]
    /\ design' = NoModule
    /\ object_count' = 0
    /\ external_kernels' = <<>>

\* let main = compile_kernel(top)?; let mut design = Module {..};
\* let mut object_count = design.objects.len();
CompileTop ==
    /\ pc = "start"
    /\ \E fail \in FailPoints :
        LET r == compile_kernel(Kernel(top), fail) IN
        /\ invocations' = [invocations EXCEPT ![top] = @ + 1]
        /\ last_compile' = r
        /\ IF r.status = "Ok"
           THEN /\ design' = [objects |-> (r.obj.fn_id :> r.obj), top |-> r.obj.fn_id]
                /\ object_count' = 1
                /\ pc' = "loop"
                /\ UNCHANGED <<external_kernels, result>>
           ELSE Abort(r)
    /\ UNCHANGED <<kernels, top, scans, path_vars>>

\* elaborate_design, first statement: collect the external kernels
Scan ==
    /\ pc = "loop"
    /\ scans < ScanCap
    /\ \E order \in Orders(DOMAIN design.objects) :
        external_kernels' = CollectExternalKernels(design.objects, order)
    /\ scans' = scans + 1
    /\ pc' = "elaborate"
    /\ UNCHANGED <<kernels, top, design, object_count, result, invocations,
                   last_compile, path_vars>>

\* a loop body that drops a failed kernel and goes on
InsertOrSkip(k, r) ==
    /\ IF r.status = "Ok"
       THEN design' = [design EXCEPT !.objects = (k :> r.obj) @@ @]
       ELSE design' = design
    /\ external_kernels' = Tail(external_kernels)
    /\ UNCHANGED <<pc, object_count, result>>

\* a loop body that also queues the externals of the object it inserts
InsertAndDescend(k, r) ==
    IF r.status = "Ok"
    THEN /\ design' = [design EXCEPT !.objects = (k :> r.obj) @@ @]
         /\ external_kernels' = Tail(external_kernels) \o FilterKernels(r.obj.externals)
         /\ UNCHANGED <<pc, object_count, result>>
    ELSE Abort(r)

\* let obj = compile_kernel(kernel.clone())?; e.insert(obj);
InsertOrAbort(k, r) ==
    IF r.status = "Ok"
    THEN /\ design' = [design EXCEPT !.objects = (k :> r.obj) @@ @]
         /\ external_kernels' = Tail(external_kernels)
         /\ UNCHANGED <<pc, object_count, result>>
    ELSE Abort(r)

\* elaborate_design, one turn of the for loop on a vacant entry
CompileExternal ==
    /\ pc = "elaborate"
    /\ external_kernels # <<>>
    /\ Vacant(design.objects, Head(external_kernels))
    /\ \E fail \in FailPoints :
        LET k == Head(external_kernels)
            r == compile_kernel(Kernel(k), fail)
        IN
        /\ invocations' = [invocations EXCEPT ![k] = @ + 1]
        /\ last_compile' = r
        /\ InsertOrAbort(k, r)
    /\ UNCHANGED <<kernels, top, scans, path_vars>>

\* elaborate_design, one turn of the for loop on an occupied entry
SkipCompiled ==
    /\ pc = "elaborate"
    /\ external_kernels # <<>>
    /\ ~Vacant(design.objects, Head(external_kernels))
    /\ external_kernels' = Tail(external_kernels)
    /\ UNCHANGED <<kernels, top, pc, design, object_count, result, invocations,
                   scans, last_compile, path_vars>>

\* elaborate_design returned Ok(()) and the object count grew
LoopContinue ==
    /\ pc = "elaborate"
    /\ external_kernels = <<>>
    /\ Grew(design.objects, object_count)
    /\ object_count' = Cardinality(DOMAIN design.objects)
    /\ pc' = "loop"
    /\ UNCHANGED <<kernels, top, design, external_kernels, result, invocations,
                   scans, last_compile, path_vars>>

\* elaborate_design returned Ok(()) and added nothing: break; Ok(design)
LoopBreak ==
    /\ pc = "elaborate"
    /\ external_kernels = <<>>
    /\ ~Grew(design.objects, object_count)
    /\ pc' = "done"
    /\ result' = [status |-> "Ok", error |-> NoError]
    /\ UNCHANGED <<kernels, top, design, object_count, external_kernels,
                   invocations, scans, last_compile, path_vars>>

Next ==
    \/ CompileTop
    \/ Scan
    \/ CompileExternal
    \/ SkipCompiled
    \/ LoopContinue
    \/ LoopBreak

Spec == Init /\ [][Next]_vars

\* compile_design is sequential code: an enabled step is eventually taken
FairSpec == Init /\ [][Next]_vars /\ WF_vars(Next)

----------------------------------------------------------------------------
(* Properties of compile_design *)

\* f calls g: an external reference of f's Object holds the in-source kernel g
Calls(f, g) == \E i \in DOMAIN kernels[f] : kernels[f][i] = KernelRef(g)

RECURSIVE ReachableFrom(_)
ReachableFrom(S) ==
    LET T == S \cup {g \in FnIds : \E f \in S : Calls(f, g)}
    IN  IF T = S THEN S ELSE ReachableFrom(T)

\* the function identities reachable from top, top included
Reachable == ReachableFrom({top})

Returned == pc = "done"
Aborted == pc \in {"failed", "panicked"}

\* the scan counter's cap never binds
ScanCapNotReached == scans <= NumFns

\* C1: when compile_design succeeds, the keys of Module.objects are exactly the
\* function identities reachable from top (top included), each key holds the
\* Object of that identity, and Module.top is top's identity.
C1_ClosureExact ==
    Returned =>
        /\ DOMAIN design.objects = Reachable
        /\ design.top = top
        /\ \A f \in DOMAIN design.objects : design.objects[f].fn_id = f

\* a successful run that leaves out an unreachable kernel which itself calls
\* a reachable one
C1_Witness ==
    /\ Returned
    /\ Cardinality(Reachable) = 2
    /\ \E u \in FnIds \ Reachable : \E g \in Reachable : Calls(u, g)

\* C2: compile_kernel is invoked at most once per function identity during one
\* compile_design call, and a step never replaces or changes an entry that is
\* already in Module.objects (the Module itself is dropped when the call fails).
C2_CompiledOnce ==
    [][ /\ \A f \in FnIds : invocations'[f] <= 1
        /\ ~Aborted' =>
              \A f \in DOMAIN design.objects :
                  /\ f \in DOMAIN design'.objects
                  /\ design'.objects[f] = design.objects[f] ]_vars

\* a successful run in which top calls itself and lists another kernel twice
C2_Witness ==
    /\ Returned
    /\ Calls(top, top)
    /\ \E g \in FnIds \ {top} :
          /\ \E i, j \in DOMAIN kernels[top] :
                i # j /\ kernels[top][i] = KernelRef(g) /\ kernels[top][j] = KernelRef(g)
          /\ invocations[g] = 1
    /\ invocations[top] = 1

\* C3: compile_design terminates on every call graph; until it does, the set of
\* compiled identities only grows, and the loop ends right after the first scan
\* that added no entry.
C3_Terminates ==
    /\ <>(Returned \/ Aborted)
    /\ [][~Aborted' => DOMAIN design.objects \subseteq DOMAIN design'.objects]_vars
    /\ [][(pc = "elaborate" /\ pc' = "loop")
             => Cardinality(DOMAIN design.objects) > object_count]_vars
    /\ [][(pc = "elaborate" /\ external_kernels = <<>>
             /\ Cardinality(DOMAIN design.objects) = object_count)
             => pc' \in {"elaborate", "done"}]_vars

\* a finished run over a graph with a self-recursive kernel and two mutually
\* recursive kernels
C3_Witness ==
    /\ Returned
    /\ \E f \in Reachable : Calls(f, f)
    /\ \E f, g \in Reachable : f # g /\ Calls(f, g) /\ Calls(g, f)

\* C4: when a compile_kernel call does not succeed, compile_design returns no
\* Module, and an error whenever compile_kernel returned one; a Module is
\* returned only when every reachable kernel was compiled successfully.
C4_AllOrNothing ==
    /\ last_compile.status \in {"Err", "Panic"} =>
          /\ Aborted
          /\ design = NoModule
          /\ result.status = last_compile.status
    /\ last_compile.status = "Err" => result.error = last_compile.error
    /\ Returned =>
          /\ result.status = "Ok"
          /\ last_compile.status = "Ok"
          /\ \A f \in Reachable :
                invocations[f] >= 1 /\ f \in DOMAIN design.objects

\* the failure of a kernel two calls away from top, after top and the kernel
\* in between were compiled
C4_Witness ==
    /\ pc = "failed"
    /\ result.status = "Err"
    /\ result.error.fn_id # top
    /\ ~Calls(top, result.error.fn_id)
    /\ invocations[top] = 1
    /\ Cardinality({f \in FnIds : invocations[f] = 1}) = 3

\* the Object a verified compile_kernel run yields for kernel f
VerifiedObject(f) ==
    [fn_id |-> f, externals |-> kernels[f],
     passes |-> Rounds(OptRounds) \o <<"TypeCheckPass", "DataFlowCheckPass">>]

\* C5: every Object in the Module, at any time and in particular when it is
\* returned, is the output of compile_kernel: it went through the optimisation
\* rounds and then passed the type check and the data-flow check.
C5_OnlyVerifiedObjects ==
    \A f \in DOMAIN design.objects :
        LET obj == design.objects[f]
            n == Len(obj.passes)
        IN  /\ n >= 2
            /\ obj.passes[n - 1] = "TypeCheckPass"
            /\ obj.passes[n] = "DataFlowCheckPass"
            /\ \A i \in 1..(n - 2) :
                  obj.passes[i] \notin {"TypeCheckPass", "DataFlowCheckPass"}
            /\ obj = VerifiedObject(f)

\* a returned Module that holds the top object and two discovered callees
C5_Witness ==
    /\ Returned
    /\ Cardinality(DOMAIN design.objects) = 3

\* the passes of one optimisation round, in the order the claim gives them
ClaimedRound ==
    <<"RemoveExtraRegistersPass", "RemoveUnneededMuxesPass",
      "RemoveExtraRegistersPass", "RemoveUnusedLiterals",
      "PreCastLiterals", "RemoveUselessCastsPass">>

\* C15: every successful compile_kernel run applies to the lowered Object
\* exactly two rounds of the six optimisation passes, then the type check once,
\* then the data-flow check once, and nothing else.
C15_PassOrder ==
    last_compile.status = "Ok" =>
        /\ last_compile.obj.passes =
              ClaimedRound \o ClaimedRound \o <<"TypeCheckPass", "DataFlowCheckPass">>
        /\ Len(last_compile.log) = Len(last_compile.obj.passes) + 5
        /\ last_compile.log[5] = "compile"
        /\ SubSeq(last_compile.log, 6, Len(last_compile.log)) = last_compile.obj.passes

\* the successful compilation of a kernel discovered by elaborate_design
C15_Witness ==
    /\ pc = "elaborate"
    /\ last_compile.status = "Ok"
    /\ last_compile.obj.fn_id # top
    /\ last_compile.obj.fn_id \in DOMAIN design.objects

\* the phases of compile_kernel in the order the claim gives them
ClaimedPhases ==
    <<"assign_node_ids", "infer", "check_inference", "compile">>
    \o ClaimedRound \o ClaimedRound \o <<"TypeCheckPass", "DataFlowCheckPass">>

RECURSIVE WithoutRender(_)
WithoutRender(log) ==
    IF log = <<>> THEN <<>>
    ELSE (IF Head(log) = "render_ast_to_string" THEN <<>> ELSE <<Head(log)>>)
         \o WithoutRender(Tail(log))

\* C16: a compile_kernel run that fails ran a prefix of the phase order, each
\* phase once, and stopped with the error of the last phase it ran (so
\* lowering did not run when the completeness check failed); compile_design
\* returns that error, and no kernel is compiled after a failure.
C16_FailFast ==
    /\ [](last_compile.status \in {"Err", "Panic"} =>
            LET log == last_compile.log
                ran == WithoutRender(log)
            IN  /\ log # <<>>
                /\ log[Len(log)] = last_compile.error.phase
                /\ Len(ran) <= Len(ClaimedPhases)
                /\ ran = SubSeq(ClaimedPhases, 1, Len(ran))
                /\ last_compile.error.phase = "check_inference" =>
                      \A i \in DOMAIN log : log[i] # "compile")
    /\ [](last_compile.status = "Err" =>
            pc = "failed" /\ result.status = "Err" /\ result.error = last_compile.error)
    /\ [][last_compile.status \in {"Err", "Panic"} => invocations' = invocations]_vars

\* the completeness check of a discovered kernel fails while another kernel
\* that top calls is still uncompiled
C16_Witness ==
    /\ pc = "failed"
    /\ result.error.phase = "check_inference"
    /\ result.error.fn_id # top
    /\ last_compile.log = <<"assign_node_ids", "infer", "render_ast_to_string",
                            "check_inference">>
    /\ \E g \in FnIds : Calls(top, g) /\ invocations[g] = 0

\* the Module fixed by the input alone: the Object of every kernel reachable
\* from top, keyed by its identity
ModuleOfInput ==
    [objects |-> [f \in Reachable |-> compile_kernel(Kernel(f), 0).obj],
     top |-> top]

\* C17: the Module a successful compile_design returns is a function of the
\* top kernel alone: whatever orders the objects map was iterated in, the
\* identity-to-Object map and the top identity are the same, and no iteration
\* order of the returned map discovers a further kernel.
C17_OrderIndependent ==
    Returned =>
        /\ design = ModuleOfInput
        /\ \A order \in Orders(DOMAIN design.objects) :
              LET found == CollectExternalKernels(design.objects, order)
              IN  \A i \in DOMAIN found : found[i] \in DOMAIN design.objects

\* a returned Module of three objects whose externals are collected in
\* different sequences by different iteration orders of the map
C17_Witness ==
    /\ Returned
    /\ Cardinality(DOMAIN design.objects) = 3
    /\ scans >= 3
    /\ \E o1, o2 \in Orders(DOMAIN design.objects) :
          /\ CollectExternalKernels(design.objects, o1) # <<>>
          /\ Head(CollectExternalKernels(design.objects, o1))
                # Head(CollectExternalKernels(design.objects, o2))

\* C20: when compiling a transitively discovered kernel fails, the error
\* compile_design returns carries the call chain that discovered the kernel,
\* so it is none of the errors compile_kernel returns for that kernel compiled
\* alone.
C20_ErrorTagged ==
    (pc = "failed" /\ result.error.fn_id # top) =>
        \A fail \in FailPoints :
            result.error # compile_kernel(Kernel(result.error.fn_id), fail).error

\* the object of f holds a reference to an opaque external function
CallsExtern(f) == \E i \in DOMAIN kernels[f] : kernels[f][i].code = "Extern"

\* C23: only references whose code is a Kernel are followed: every identity
\* collected by a scan and every key of Module.objects other than top is the
\* kernel of a Kernel reference held by an object of the Module, compile_kernel
\* is never called on anything else, and a further scan starts only after a
\* scan that inserted such a kernel.
C23_KernelsOnly ==
    /\ [](/\ \A i \in DOMAIN external_kernels :
                \E g \in DOMAIN design.objects : Calls(g, external_kernels[i])
          /\ \A f \in DOMAIN design.objects :
                f = top \/ \E g \in DOMAIN design.objects : Calls(g, f)
          /\ \A f \in FnIds :
                invocations[f] > 0 => f \in Reachable
          /\ last_compile.status \in {"Err", "Panic"} =>
                last_compile.error.fn_id \in Reachable)
    /\ [][(pc = "elaborate" /\ pc' = "loop") =>
             \E f \in DOMAIN design.objects :
                 /\ f # top
                 /\ invocations[f] = 1
                 /\ Cardinality(DOMAIN design.objects) > object_count]_vars
    /\ []((Returned /\ \A f \in Reachable : ~\E g \in FnIds : Calls(f, g)) =>
             scans = 1)

\* a returned Module of two objects that both hold an opaque reference, after
\* two scans
C23_Witness ==
    /\ Returned
    /\ Cardinality(DOMAIN design.objects) = 2
    /\ \A f \in DOMAIN design.objects : CallsExtern(f)
    /\ scans = 2

\* the kernels at call distance at most n from top
RECURSIVE Within(_)
Within(n) ==
    IF n = 0 THEN {top}
    ELSE LET S == Within(n - 1)
         IN  S \cup {g \in FnIds : \E f \in S : Calls(f, g)}

\* the largest call distance of a reachable kernel
Depth == CHOOSE n \in 0..NumFns : Within(n) = Reachable /\ \A m \in 0..(n - 1) : Within(m) # Reachable

\* C29: the scan number n works on the kernels at call distance below n and
\* adds those at distance n, nothing further: between scans Module.objects
\* holds exactly the kernels at distance at most the number of scans made,
\* during scan n it lies between distance n - 1 and distance n, and
\* compile_design returns after (largest call distance) + 1 scans, the last
\* of which added nothing.
C29_LevelByLevel ==
    /\ pc = "loop" => DOMAIN design.objects = Within(scans)
    /\ pc = "elaborate" =>
          /\ Within(scans - 1) \subseteq DOMAIN design.objects
          /\ DOMAIN design.objects \subseteq Within(scans)
          /\ \A i \in DOMAIN external_kernels : external_kernels[i] \in Within(scans)
          /\ external_kernels = <<>> => DOMAIN design.objects = Within(scans)
    /\ Returned =>
          /\ scans = Depth + 1
          /\ DOMAIN design.objects = Within(scans - 1)
          /\ object_count = Cardinality(Within(scans - 1))

\* a chain top -> g -> h returned after three scans
C29_Witness ==
    /\ Returned
    /\ Depth = 2
    /\ scans = 3
    /\ Cardinality(Within(1)) = 2
    /\ Cardinality(DOMAIN design.objects) = 3

----------------------------------------------------------------------------
(* The Kinds and Paths that bit_range and path_star are applied to *)

Leaves == {make_bits(w) : w \in 1..MaxWidth} \cup {Empty}
Alignments == {"Lsb", "Msb"}
DiscriminantTypes == {"Unsigned", "Signed"}
Layouts == {make_discriminant_layout(w, al, ty) :
                w \in 1..MaxWidth, al \in Alignments, ty \in DiscriminantTypes}

Arrays(C) == {make_array(c, n) : c \in C, n \in 0..MaxLen}
Tuples2(C, D) == {make_tuple(<<c, d>>) : c \in C, d \in D}
Tuples3(C) == {make_tuple(<<c, d, e>>) : c \in C, d \in C, e \in C}
Structs2(C, D) ==
    {make_struct(<<make_field("a", c), make_field("b", d)>>) : c \in C, d \in D}
Structs3(C) ==
    {make_struct(<<make_field("a", c), make_field("b", d), make_field("c", e)>>) :
        c \in C, d \in C, e \in C}
Enums(C, D, L) ==
    {make_enum(<<make_variant("A", 0, c), make_variant("B", 1, d)>>, l) :
        c \in C, d \in D, l \in L}

\* composites of leaves
Flat == Arrays(Leaves) \cup Tuples2(Leaves, Leaves) \cup Tuples3(Leaves)
        \cup Structs2(Leaves, Leaves) \cup Structs3(Leaves)
        \cup Enums(Leaves, Leaves, Layouts)

\* the composites that occur as a member of another composite
Inner == Arrays(Leaves) \cup Tuples2(Leaves, Leaves) \cup Structs2(Leaves, Leaves)
         \cup Enums(Leaves, {make_bits(MaxWidth)},
                    {make_discriminant_layout(1, al, "Unsigned") : al \in Alignments})

\* composites with a composite member, which then sits at a non-zero offset
Nested == Arrays(Inner) \cup Tuples2({make_bits(1)}, Inner)
          \cup Structs2({make_bits(1)}, Inner)
          \cup Enums({make_bits(1)}, Inner,
                     {make_discriminant_layout(1, al, "Unsigned") : al \in Alignments})

Kinds == Leaves \cup Flat \cup Nested

PathElements ==
    {Index(i) : i \in 0..MaxLen}
    \cup {Field(n) : n \in {"a", "b", "c"}}
    \cup {EnumDiscriminant}
    \cup {EnumPayload(n) : n \in {"A", "B", "C"}}
    \cup {EnumPayloadByValue(d) : d \in 0..2}
    \cup {DynamicIndex(0)}

Paths == SeqsUpTo(PathElements, MaxPathLen)

----------------------------------------------------------------------------
(* PathSpec: the two functions applied to every Kind and Path of the bounds *)

DriverIdle ==
    /\ kernels = [f \in FnIds |-> <<>>]
    /\ top = 1
    /\ pc = "idle"
    /\ design = NoModule
    /\ object_count = 0
    /\ external_kernels = <<>>
    /\ result = [status |-> "None", error |-> NoError]
    /\ invocations = [f \in FnIds |-> 0]
    /\ scans = 0
    /\ last_compile = NoCompile

PathInit ==
    /\ kind \in Kinds
    /\ path = <<>>
    /\ op = "none"
    /\ range_result = RangeErr("not called")
    /\ star_result = StarErr("not called")
    /\ ty_result = NoTy
    /\ other = <<>>
    /\ helper_result = NoHelper
    /\ BitsIdle
    /\ VerilogIdle
    /\ DriverIdle

\* bit_range(kind, &path), the path an argument of the call
CallBitRange ==
    /\ op = "none"
    /\ \E p \in Paths :
          /\ path' = p
          /\ range_result' = bit_range(kind, p)
    /\ op' = "bit_range"
    /\ UNCHANGED <<kind, star_result, ty_result, other, helper_result,
                   driver_vars, bits_vars, verilog_vars>>

\* path_star(&kind, &path), the path an argument of the call
CallPathStar ==
    /\ op = "none"
    /\ \E p \in Paths :
          /\ path' = p
          /\ star_result' = path_star(kind, p)
    /\ op' = "path_star"
    /\ UNCHANGED <<kind, range_result, ty_result, other, helper_result,
                   driver_vars, bits_vars, verilog_vars>>

PathNext ==
    \/ CallBitRange
    \/ CallPathStar

PathSpec == PathInit /\ [][PathNext]_vars

\* bit_range applied to every Kind and Path of the bounds
RangeNext == CallBitRange

RangeSpec == PathInit /\ [][RangeNext]_vars

\* path_star applied to every Kind and Path of the bounds
StarNext == CallPathStar

StarSpec == PathInit /\ [][StarNext]_vars

----------------------------------------------------------------------------
(* TySpec: Ty::from applied to every Kind of the bounds *)

TyInit ==
    /\ kind \in Kinds
    /\ path = <<>>
    /\ op = "none"
    /\ range_result = RangeErr("not called")
    /\ star_result = StarErr("not called")
    /\ ty_result = NoTy
    /\ other = <<>>
    /\ helper_result = NoHelper
    /\ BitsIdle
    /\ VerilogIdle
    /\ DriverIdle

\* let ty: Ty = kind.into();
CallTyFrom ==
    /\ op = "none"
    /\ ty_result' = ty_from_kind(kind)
    /\ op' = "ty_from"
    /\ UNCHANGED <<kind, path, range_result, star_result, other, helper_result,
                   driver_vars, bits_vars, verilog_vars>>

TyNext == CallTyFrom

TySpec == TyInit /\ [][TyNext]_vars

----------------------------------------------------------------------------
(* PrefixSpec: the Path helpers applied to every pair of short Paths *)

PrefixElements == {Index(0), Index(1), Field("a"), DynamicIndex(0)}
PrefixPaths == SeqsUpTo(PrefixElements, MaxPathLen)

PrefixInit ==
    /\ kind = Empty
    /\ path \in PrefixPaths
    /\ other \in PrefixPaths
    /\ op = "none"
    /\ range_result = RangeErr("not called")
    /\ star_result = StarErr("not called")
    /\ ty_result = NoTy
    /\ helper_result = NoHelper
    /\ BitsIdle
    /\ VerilogIdle
    /\ DriverIdle

\* path.clone().join(&other)
CallJoin ==
    /\ op = "none"
    /\ helper_result' = HelperValue(TRUE, join(path, other), TRUE)
    /\ op' = "join"
    /\ UNCHANGED <<kind, path, other, range_result, star_result, ty_result,
                   driver_vars, bits_vars, verilog_vars>>

\* path.is_prefix_of(&other)
CallIsPrefixOf ==
    /\ op = "none"
    /\ helper_result' = HelperValue(TRUE, <<>>, is_prefix_of(path, other))
    /\ op' = "is_prefix_of"
    /\ UNCHANGED <<kind, path, other, range_result, star_result, ty_result,
                   driver_vars, bits_vars, verilog_vars>>

\* path.strip_prefix(&other)
CallStripPrefix ==
    /\ op = "none"
    /\ LET r == strip_prefix(path, other)
       IN  helper_result' = HelperValue(r.ok, r.path, r.ok)
    /\ op' = "strip_prefix"
    /\ UNCHANGED <<kind, path, other, range_result, star_result, ty_result,
                   driver_vars, bits_vars, verilog_vars>>

PrefixNext ==
    \/ CallJoin
    \/ CallIsPrefixOf
    \/ CallStripPrefix

PrefixSpec == PrefixInit /\ [][PrefixNext]_vars

----------------------------------------------------------------------------
(* BitsSpec: set_bit and get_bit called, in any order, on a Bits<N> value *)

\* any Bits<N> with N <= 128, holding any value From<u128> accepts
BitsInit ==
    /\ width_n \in 1..WordBits
    /\ raw \in 0..WordMax
    /\ raw <= mask(width_n)
    /\ bits_call = NoCall
    /\ VerilogIdle
    /\ kind = Empty
    /\ path = <<>>
    /\ op = "none"
    /\ range_result = RangeErr("not called")
    /\ star_result = StarErr("not called")
    /\ ty_result = NoTy
    /\ other = <<>>
    /\ helper_result = NoHelper
    /\ DriverIdle

BitsFrame == UNCHANGED <<kind, path, op, range_result, star_result, ty_result,
                         other, helper_result, driver_vars, verilog_vars>>

\* bits.set_bit(bit, value); a failed assert ends the run
CallSetBit ==
    /\ ~bits_call.panic
    /\ \E bit \in 0..WordBits, value \in BOOLEAN :
          LET r == set_bit(width_n, raw, bit, value) IN
          /\ raw' = r.raw
          /\ bits_call' = [name |-> "set_bit", bit |-> bit, value |-> value,
                           before |-> raw, panic |-> r.panic, flag |-> r.flag]
    /\ UNCHANGED width_n
    /\ BitsFrame

\* bits.get_bit(bit); a failed assert ends the run
CallGetBit ==
    /\ ~bits_call.panic
    /\ \E bit \in 0..WordBits :
          LET r == get_bit(width_n, raw, bit) IN
          /\ raw' = r.raw
          /\ bits_call' = [name |-> "get_bit", bit |-> bit, value |-> FALSE,
                           before |-> raw, panic |-> r.panic, flag |-> r.flag]
    /\ UNCHANGED width_n
    /\ BitsFrame

BitsNext ==
    \/ CallSetBit
    \/ CallGetBit

BitsSpec == BitsInit /\ [][BitsNext]_vars

----------------------------------------------------------------------------
(* VerilogSpec: translate applied to circuits of every port width *)

PortKinds == {PortKind(w) : w \in 0..MaxWidth}

VerilogInit ==
    /\ circuit \in [i : PortKinds, o : PortKinds, d : PortKinds, q : PortKinds]
    /\ verilog = NoVerilog
    /\ BitsIdle
    /\ kind = Empty
    /\ path = <<>>
    /\ op = "none"
    /\ range_result = RangeErr("not called")
    /\ star_result = StarErr("not called")
    /\ ty_result = NoTy
    /\ other = <<>>
    /\ helper_result = NoHelper
    /\ DriverIdle

\* VerilogTranslator.translate(&circuit) returned Ok(text)
CallTranslate ==
    /\ ~verilog.written
    /\ verilog' = translate(circuit)
    /\ UNCHANGED <<circuit, kind, path, op, range_result, star_result, ty_result,
                   other, helper_result, driver_vars, bits_vars>>

VerilogNext == CallTranslate

VerilogSpec == VerilogInit /\ [][VerilogNext]_vars

----------------------------------------------------------------------------
(* Properties of bit_range and path_star *)

\* the children of a composite Kind in layout order: the elements of a Tuple,
\* the field Kinds of a Struct, `size` copies of the base of an Array
Children(k) ==
    CASE k.tag = "Array" -> [j \in 1..k.size |-> k.base]
      [] k.tag = "Tuple" -> k.elements
      [] k.tag = "Struct" -> [j \in DOMAIN k.fields |-> k.fields[j].kind]
      [] OTHER -> <<>>

Indexable(k) == k.tag \in {"Array", "Tuple", "Struct"}

RECURSIVE SumWidths(_, _)
SumWidths(ks, n) == IF n = 0 THEN 0 ELSE SumWidths(ks, n - 1) + bits(ks[n])

\* C6: when bit_range(k, p) succeeds with (r, k2), r.end - r.start = bits(k2)
\* and r lies inside 0..bits(k); the empty path yields (0..bits(k), k).
C6_WidthConsistency ==
    op = "bit_range" =>
        /\ range_result.ok =>
              /\ range_result.end - range_result.start = bits(range_result.kind)
              /\ 0 <= range_result.start
              /\ range_result.start <= range_result.end
              /\ range_result.end <= bits(kind)
        /\ path = <<>> =>
              /\ range_result.ok
              /\ range_result.start = 0
              /\ range_result.end = bits(kind)
              /\ range_result.kind = kind

\* the payload of the narrower variant of an Msb-aligned enum that is itself
\* a member at a non-zero offset
C6_Witness ==
    /\ op = "bit_range"
    /\ range_result.ok
    /\ Len(path) = 2
    /\ path[2].tag = "EnumPayload"
    /\ range_result.start > 0
    /\ LET e == sub_kind(kind, <<path[1]>>).kind IN
          /\ e.discriminant_layout.alignment = "Msb"
          /\ bits(range_result.kind) + e.discriminant_layout.width < bits(e)

\* the number of paths a successful path_star(k, p) has to return: the
\* product of the lengths of the arrays the DynamicIndex elements address
RECURSIVE ExpectedCount(_, _)
ExpectedCount(k, p) ==
    IF ~any_dynamic(p) THEN 1
    ELSE IF Head(p).tag = "DynamicIndex"
    THEN IF k.tag = "Array"
         THEN (IF k.size = 0 THEN 0 ELSE k.size * ExpectedCount(k.base, Tail(p)))
         ELSE -1
    ELSE LET r == bit_range(k, <<Head(p)>>) IN
         IF r.ok THEN ExpectedCount(r.kind, Tail(p)) ELSE -1

\* C7: when path_star(k, p) succeeds, no returned path holds a DynamicIndex and
\* the number of returned paths is the product of the lengths of the arrays
\* that the DynamicIndex elements of p address.
C7_StarCount ==
    (op = "path_star" /\ star_result.ok) =>
        /\ \A j \in DOMAIN star_result.paths : ~any_dynamic(star_result.paths[j])
        /\ Len(star_result.paths) = ExpectedCount(kind, path)

\* two DynamicIndex elements into an array of arrays, both of length 2
C7_Witness ==
    /\ op = "path_star"
    /\ star_result.ok
    /\ path = <<DynamicIndex(0), DynamicIndex(0)>>
    /\ Len(star_result.paths) = 4

\* C8: every path path_star returns has as many elements as the input, equals
\* the input wherever the input holds no DynamicIndex, and holds Index(i) with
\* 0 <= i < length of the addressed array where the input holds a DynamicIndex.
C8_OneForOne ==
    (op = "path_star" /\ star_result.ok) =>
        \A j \in DOMAIN star_result.paths :
            LET q == star_result.paths[j] IN
            /\ Len(q) = Len(path)
            /\ \A n \in DOMAIN path :
                  IF path[n].tag = "DynamicIndex"
                  THEN LET addressed == bit_range(kind, SubSeq(q, 1, n - 1)) IN
                       /\ q[n].tag = "Index"
                       /\ addressed.ok
                       /\ addressed.kind.tag = "Array"
                       /\ 0 <= q[n].index
                       /\ q[n].index < addressed.kind.size
                  ELSE q[n] = path[n]

\* a field followed by a DynamicIndex into a non-empty array
C8_Witness ==
    /\ op = "path_star"
    /\ star_result.ok
    /\ Len(path) = 2
    /\ path[1].tag = "Field"
    /\ path[2].tag = "DynamicIndex"
    /\ Len(star_result.paths) = 2

\* C9: bit_range returns an error for every path that holds a DynamicIndex.
C9_DynamicUnresolved ==
    (op = "bit_range" /\ any_dynamic(path)) => ~range_result.ok

\* a DynamicIndex that addresses a non-empty array behind a resolvable element
C9_Witness ==
    /\ op = "bit_range"
    /\ Len(path) = 2
    /\ path[1].tag # "DynamicIndex"
    /\ path[2].tag = "DynamicIndex"
    /\ LET r == bit_range(kind, <<path[1]>>) IN
          r.ok /\ r.kind.tag = "Array" /\ r.kind.size > 0
    /\ range_result.err = "Dynamic indices must be resolved before calling bit_range"

\* C10: when the path before a final Index(i) resolves to (r, k): on an Array,
\* Tuple or Struct with more than i children the result starts at r.start plus
\* the widths of the children before i, is as wide as child i and has child
\* i's Kind; otherwise (i out of bounds, or k of another Kind) bit_range fails.
C10_IndexStep ==
    (op = "bit_range" /\ path # <<>> /\ path[Len(path)].tag = "Index") =>
        LET i == path[Len(path)].index
            before == bit_range(kind, SubSeq(path, 1, Len(path) - 1))
            children == Children(before.kind)
        IN  before.ok =>
              IF Indexable(before.kind) /\ i < Len(children)
              THEN /\ range_result.ok
                   /\ range_result.start = before.start + SumWidths(children, i)
                   /\ range_result.end = range_result.start + bits(children[i + 1])
                   /\ range_result.kind = children[i + 1]
                   /\ before.kind.tag = "Array" =>
                         range_result.start = before.start + i * bits(before.kind.base)
              ELSE ~range_result.ok

\* the last of three members, behind members of non-zero width
C10_Witness ==
    /\ op = "bit_range"
    /\ range_result.ok
    /\ path = <<Index(2)>>
    /\ kind.tag = "Struct"
    /\ range_result.start = 2 * MaxWidth
    /\ range_result.end > range_result.start

\* the running (range, kind) pair before the last element of the path
BeforeLast == bit_range(kind, SubSeq(path, 1, Len(path) - 1))

\* bit_range was applied to a path whose last element has the given tag and
\* whose elements before it resolve
LastStepIs(tag) ==
    /\ op = "bit_range"
    /\ path # <<>>
    /\ path[Len(path)].tag = tag
    /\ BeforeLast.ok

\* the positions (1-based) of the members of `items` that carry the name
NamedPositions(items, name) == {j \in DOMAIN items : items[j].name = name}

\* C11: when the path before a final Field(name) resolves to (r, k): on a
\* Struct with a field of that name at position j the result starts at r.start
\* plus the widths of the fields before it, has that field's width and Kind,
\* and equals the result for Index(j); on a Struct without such a field it
\* fails with "Field not found", on any other Kind with the invalid-operation
\* error.
C11_FieldStep ==
    LastStepIs("Field") =>
        LET name == path[Len(path)].name
            before == BeforeLast
            prefix == SubSeq(path, 1, Len(path) - 1)
        IN  IF before.kind.tag = "Struct"
            THEN LET at == NamedPositions(before.kind.fields, name) IN
                 IF at = {}
                 THEN ~range_result.ok /\ range_result.err = "Field not found"
                 ELSE LET j == CHOOSE j \in at : \A h \in at : j <= h
                          children == Children(before.kind)
                      IN  /\ range_result.ok
                          /\ range_result.start = before.start + SumWidths(children, j - 1)
                          /\ range_result.end = range_result.start + bits(children[j])
                          /\ range_result.kind = children[j]
                          /\ range_result = bit_range(kind, Append(prefix, Index(j - 1)))
            ELSE /\ ~range_result.ok
                 /\ range_result.err = "Field indexing not allowed on this type"

\* field b of a struct that is itself field b of a struct: .b.b, with the
\* inner struct at a non-zero offset and the inner field behind another one
C11_Witness ==
    /\ op = "bit_range"
    /\ range_result.ok
    /\ path = <<Field("b"), Field("b")>>
    /\ BeforeLast.start > 0
    /\ range_result.start > BeforeLast.start

\* C12: when the path before a final EnumDiscriminant resolves to (r, k): on an
\* Enum the result is the lowest `width` bits of r for Lsb alignment and the
\* highest `width` bits of r for Msb alignment, whatever the variants are, with
\* Kind Signed(width) for a signed layout and Bits(width) otherwise; on any
\* other Kind bit_range fails.
C12_DiscriminantStep ==
    LastStepIs("EnumDiscriminant") =>
        LET before == BeforeLast IN
        IF before.kind.tag = "Enum"
        THEN LET layout == before.kind.discriminant_layout IN
             /\ range_result.ok
             /\ range_result.end - range_result.start = layout.width
             /\ layout.alignment = "Lsb" => range_result.start = before.start
             /\ layout.alignment = "Msb" => range_result.end = before.end
             /\ range_result.kind =
                   [tag |-> IF layout.ty = "Signed" THEN "Signed" ELSE "Bits",
                    width |-> layout.width]
        ELSE ~range_result.ok

\* the signed discriminant of an Msb-aligned enum with a non-empty payload
C12_Witness ==
    /\ op = "bit_range"
    /\ range_result.ok
    /\ path = <<EnumDiscriminant>>
    /\ kind.discriminant_layout.alignment = "Msb"
    /\ range_result.kind.tag = "Signed"
    /\ range_result.start > 0
    /\ range_result.end = bits(kind)

\* bit_range was applied to a path that ends in a payload element and resolved
PayloadResolved ==
    /\ op = "bit_range"
    /\ path # <<>>
    /\ path[Len(path)].tag \in {"EnumPayload", "EnumPayloadByValue"}
    /\ range_result.ok

\* what EnumDiscriminant yields on the enum the payload was taken from
DiscriminantOfSame ==
    bit_range(kind, Append(SubSeq(path, 1, Len(path) - 1), EnumDiscriminant))

RangesDisjoint(a, b) == a.end <= b.start \/ b.end <= a.start

\* C13 as stated: the payload range is disjoint from the discriminant range
\* and touches it: it starts where the discriminant ends (Lsb) or ends where
\* the discriminant starts (Msb), for every variant.
C13_PayloadAdjacent ==
    PayloadResolved =>
        LET disc == DiscriminantOfSame
            alignment == BeforeLast.kind.discriminant_layout.alignment
        IN  /\ disc.ok
            /\ RangesDisjoint(range_result, disc)
            /\ alignment = "Lsb" => range_result.start = disc.end
            /\ alignment = "Msb" => range_result.end = disc.start

\* C13 amended: the payload range is disjoint from the discriminant range; with
\* Lsb alignment it starts where the discriminant ends; with Msb alignment it
\* starts at the first bit of the enum and ends at or before the bit where the
\* discriminant starts, reaching that bit exactly when the variant's payload
\* is as wide as the widest payload of the enum.
C13_PayloadPlacement ==
    PayloadResolved =>
        LET disc == DiscriminantOfSame
            enum == BeforeLast
            alignment == enum.kind.discriminant_layout.alignment
            widest == bits(enum.kind) - enum.kind.discriminant_layout.width
        IN  /\ disc.ok
            /\ RangesDisjoint(range_result, disc)
            /\ alignment = "Lsb" => range_result.start = disc.end
            /\ alignment = "Msb" =>
                  /\ range_result.start = enum.start
                  /\ range_result.end <= disc.start
                  /\ (range_result.end = disc.start)
                        <=> (bits(range_result.kind) = widest)

\* the payload of the narrower variant of an Msb-aligned enum: a gap lies
\* between the payload and the discriminant
C13_Witness ==
    /\ PayloadResolved
    /\ BeforeLast.kind.discriminant_layout.alignment = "Msb"
    /\ bits(range_result.kind) > 0
    /\ range_result.end < DiscriminantOfSame.start

\* the positions (1-based) of the variants that carry the discriminant value
ValuedPositions(variants, disc) ==
    {j \in DOMAIN variants : variants[j].discriminant = disc}

\* C14: when the path before a final EnumPayload(name) resolves, bit_range
\* fails exactly when the Kind there is not an Enum or has no variant of that
\* name; likewise EnumPayloadByValue(v) fails exactly when it is not an Enum or
\* has no variant with discriminant v. On success the Kind is the variant's
\* payload Kind, and naming the variant gives the same result as giving its
\* discriminant.
C14_PayloadLookup ==
    LET prefix == SubSeq(path, 1, Len(path) - 1) IN
    /\ LastStepIs("EnumPayload") =>
          LET k == BeforeLast.kind
              at == IF k.tag = "Enum"
                    THEN NamedPositions(k.variants, path[Len(path)].name) ELSE {}
          IN  /\ range_result.ok <=> at # {}
              /\ at # {} =>
                    LET v == k.variants[CHOOSE j \in at : \A h \in at : j <= h] IN
                    /\ range_result.kind = v.kind
                    /\ range_result =
                          bit_range(kind, Append(prefix, EnumPayloadByValue(v.discriminant)))
    /\ LastStepIs("EnumPayloadByValue") =>
          LET k == BeforeLast.kind
              at == IF k.tag = "Enum"
                    THEN ValuedPositions(k.variants, path[Len(path)].discriminant) ELSE {}
          IN  /\ range_result.ok <=> at # {}
              /\ at # {} =>
                    LET v == k.variants[CHOOSE j \in at : \A h \in at : j <= h] IN
                    /\ range_result.kind = v.kind
                    /\ range_result = bit_range(kind, Append(prefix, EnumPayload(v.name)))

\* the second variant of an enum behind another member, taken by value
C14_Witness ==
    /\ PayloadResolved
    /\ Len(path) = 2
    /\ path[2] = EnumPayloadByValue(1)
    /\ BeforeLast.start > 0
    /\ bits(range_result.kind) > 0
    /\ range_result = bit_range(kind, <<path[1], EnumPayload("B")>>)

\* C19: no failure inside compile_kernel or compile_design aborts the process:
\* compile_design never ends in a panic, and converting a Kind to an
\* inference type never panics.
C19_NoProcessAbort ==
    /\ pc # "panicked"
    /\ result.status # "Panic"
    /\ op = "ty_from" => ty_result.status = "Ok"

StarResolved == op = "path_star" /\ star_result.ok

DynamicPositions(p) == {n \in DOMAIN p : p[n].tag = "DynamicIndex"}

\* q comes before r in the order of the indices substituted at the positions
\* in D, the earliest position being the most significant
IndexLess(q, r, D) ==
    \E n \in D :
        /\ q[n].index < r[n].index
        /\ \A m \in D : m < n => q[m].index = r[m].index

\* C21: path_star is a function of (kind, path); the list it returns is in
\* strictly ascending lexicographic order of the indices substituted for the
\* DynamicIndex elements, earliest position most significant, so no path
\* occurs twice.
C21_StarOrder ==
    op = "path_star" =>
        /\ star_result = path_star(kind, path)
        /\ star_result.ok =>
              \A j, l \in DOMAIN star_result.paths :
                  j < l => IndexLess(star_result.paths[j], star_result.paths[l],
                                     DynamicPositions(path))

\* two DynamicIndex elements: the second one varies fastest
C21_Witness ==
    /\ StarResolved
    /\ DynamicPositions(path) = {1, 2}
    /\ Len(star_result.paths) >= 4
    /\ star_result.paths[2] = <<Index(0), Index(1)>>
    /\ star_result.paths[3] = <<Index(1), Index(0)>>

\* walking p from k and stepping into the element Kind at a DynamicIndex:
\* some DynamicIndex addresses a Kind that is not an Array, or some element
\* that precedes a DynamicIndex does not resolve against its Kind
RECURSIVE IllTyped(_, _)
IllTyped(k, p) ==
    IF ~any_dynamic(p) THEN FALSE
    ELSE IF Head(p).tag = "DynamicIndex"
    THEN k.tag # "Array" \/ IllTyped(k.base, Tail(p))
    ELSE LET r == bit_range(k, <<Head(p)>>) IN
         ~r.ok \/ IllTyped(r.kind, Tail(p))

\* the same walk, ended at the first DynamicIndex that addresses an Array of
\* length zero: "clean" when such an array is reached with nothing wrong
\* before it, "bad" when something is wrong first, "good" otherwise
RECURSIVE WalkToEmptyArray(_, _)
WalkToEmptyArray(k, p) ==
    IF ~any_dynamic(p) THEN "good"
    ELSE IF Head(p).tag = "DynamicIndex"
    THEN IF k.tag # "Array" THEN "bad"
         ELSE IF k.size = 0 THEN "clean"
         ELSE WalkToEmptyArray(k.base, Tail(p))
    ELSE LET r == bit_range(k, <<Head(p)>>) IN
         IF ~r.ok THEN "bad" ELSE WalkToEmptyArray(r.kind, Tail(p))

\* C22 as stated: path_star fails whenever a DynamicIndex addresses a Kind
\* that is not an Array or an element before a DynamicIndex does not resolve.
C22_FailsWhenIllTyped ==
    (op = "path_star" /\ IllTyped(kind, path)) => ~star_result.ok

\* C22, amended: path_star fails, with no list, whenever such a fault is met
\* before any DynamicIndex that addresses an Array of length zero; when a
\* DynamicIndex addresses an Array of length zero with no fault before it,
\* path_star returns the empty list whatever follows.
C22_FailsBeforeEmptyArray ==
    op = "path_star" =>
        /\ WalkToEmptyArray(kind, path) = "bad" =>
              ~star_result.ok /\ star_result.paths = <<>>
        /\ WalkToEmptyArray(kind, path) = "clean" =>
              star_result.ok /\ star_result.paths = <<>>

\* a DynamicIndex into a non-empty array whose elements are no arrays,
\* followed by a second DynamicIndex
C22_Witness ==
    /\ op = "path_star"
    /\ path = <<DynamicIndex(0), DynamicIndex(0)>>
    /\ kind.tag = "Array"
    /\ kind.size > 0
    /\ kind.base.tag # "Array"
    /\ star_result.err = "Dynamic index on non-array type"

\* p is an initial segment of q
InitialSegment(p, q) == \E n \in 0..Len(q) : p = SubSeq(q, 1, n)

\* C24: a is a prefix of a.join(b) and stripping a from a.join(b) gives b;
\* p.strip_prefix(q) fails exactly when q is no prefix of p, returns the rest
\* of p otherwise and never changes p; is_prefix_of holds exactly for initial
\* segments, so for the empty path and for the path itself.
C24_PrefixHelpers ==
    /\ [](op = "join" =>
            /\ is_prefix_of(path, helper_result.path)
            /\ strip_prefix(helper_result.path, path) = [ok |-> TRUE, path |-> other]
            /\ Len(helper_result.path) = Len(path) + Len(other))
    /\ [](op = "strip_prefix" =>
            /\ helper_result.ok <=> is_prefix_of(other, path)
            /\ helper_result.ok <=> InitialSegment(other, path)
            /\ helper_result.ok => join(other, helper_result.path) = path)
    /\ [](op = "is_prefix_of" =>
            /\ helper_result.flag <=> InitialSegment(path, other)
            /\ path = <<>> => helper_result.flag
            /\ path = other => helper_result.flag)
    /\ [][path' = path /\ other' = other]_vars

\* a one-element prefix stripped from a two-element path whose tail differs
\* from the prefix
C24_Witness ==
    /\ op = "strip_prefix"
    /\ helper_result.ok
    /\ Len(other) = 1
    /\ Len(path) = 2
    /\ helper_result.path = <<path[2]>>
    /\ path[2] # path[1]

\* bit j of the number x
BitOf(x, j) == (x \div Pow2(j)) % 2 = 1

\* C25: for a bit position below N, set_bit(b, v) makes get_bit(b) return v
\* and changes no other bit of the value; get_bit returns the bit and changes
\* nothing; clearing and then setting one bit of the all-ones value gives the
\* all-ones value again; with b >= N both calls fail their assertion and leave
\* the value as it was.
C25_SetGetBit ==
    /\ [](bits_call.name \in {"set_bit", "get_bit"} =>
            IF bits_call.bit < width_n
            THEN /\ ~bits_call.panic
                 /\ bits_call.name = "set_bit" =>
                       /\ get_bit(width_n, raw, bits_call.bit).flag = bits_call.value
                       /\ BitOf(raw, bits_call.bit) = bits_call.value
                       /\ \A j \in 0..(WordBits - 1) :
                             j # bits_call.bit =>
                                 BitOf(raw, j) = BitOf(bits_call.before, j)
                 /\ bits_call.name = "get_bit" =>
                       /\ bits_call.flag = BitOf(raw, bits_call.bit)
                       /\ raw = bits_call.before
            ELSE bits_call.panic /\ raw = bits_call.before)
    /\ [][(/\ bits_call.name = "set_bit"
           /\ ~bits_call.value
           /\ bits_call.before = mask(width_n)
           /\ bits_call'.name = "set_bit"
           /\ bits_call'.value
           /\ bits_call'.bit = bits_call.bit
           /\ ~bits_call'.panic)
          => raw' = mask(width_n)]_vars

\* the top bit of the widest value cleared and set again
C25_Witness ==
    /\ width_n = WordBits
    /\ bits_call.name = "set_bit"
    /\ bits_call.value
    /\ bits_call.bit = WordBits - 1
    /\ bits_call.before = WordMax - Pow2(WordBits - 1)
    /\ raw = WordMax

\* C26: for a path without DynamicIndex and each way of cutting it into p
\* followed by q, bit_range on the whole path succeeds exactly when
\* bit_range(k, p) = (rp, kp) and bit_range(kp, q) = (rq, kq) both succeed,
\* and then returns (rp.start + rq.start .. rp.start + rq.end, kq).
C26_Composition ==
    (op = "bit_range" /\ ~any_dynamic(path)) =>
        \A n \in 0..Len(path) :
            LET rp == bit_range(kind, SubSeq(path, 1, n))
                q == SubSeq(path, n + 1, Len(path))
            IN  IF rp.ok
                THEN LET rq == bit_range(rp.kind, q) IN
                     /\ range_result.ok <=> rq.ok
                     /\ rq.ok =>
                           /\ range_result.start = rp.start + rq.start
                           /\ range_result.end = rp.start + rq.end
                           /\ range_result.kind = rq.kind
                ELSE ~range_result.ok

\* two index steps that both skip a member of non-zero width
C26_Witness ==
    /\ op = "bit_range"
    /\ range_result.ok
    /\ path = <<Index(1), Index(1)>>
    /\ LET rp == bit_range(kind, <<Index(1)>>) IN
          /\ rp.start > 0
          /\ bit_range(rp.kind, <<Index(1)>>).start > 0
          /\ range_result.start > rp.start

\* the range of child j (counted from 0) of the composite that the path
\* before the last element resolves to
ChildRange(j) == bit_range(kind, Append(SubSeq(path, 1, Len(path) - 1), Index(j)))

\* C27: when the path before a final Index resolves to an Array, Tuple or
\* Struct, the ranges of its children are pairwise disjoint, the first starts
\* where the parent starts, each next one starts where the one before ends
\* and the last ends where the parent ends.
C27_ChildrenTile ==
    (op = "bit_range" /\ path # <<>> /\ path[Len(path)].tag = "Index") =>
        LET parent == BeforeLast IN
        (parent.ok /\ Indexable(parent.kind)) =>
            LET count == Len(Children(parent.kind))
                ranges == [j \in 0..(count - 1) |-> ChildRange(j)]
            IN  /\ \A j \in 0..(count - 1) : ranges[j].ok
                /\ \A i, j \in 0..(count - 1) :
                      i # j => RangesDisjoint(ranges[i], ranges[j])
                /\ count > 0 =>
                      /\ ranges[0].start = parent.start
                      /\ ranges[count - 1].end = parent.end
                /\ \A j \in 1..(count - 1) : ranges[j].start = ranges[j - 1].end
                /\ range_result.ok <=> path[Len(path)].index < count

\* the middle member of a tuple of three members of non-zero width
C27_Witness ==
    /\ LastStepIs("Index")
    /\ path = <<Index(1)>>
    /\ kind.tag = "Tuple"
    /\ Len(kind.elements) = 3
    /\ \A j \in 1..3 : bits(kind.elements[j]) > 0
    /\ range_result.ok
    /\ range_result.start = ChildRange(0).end
    /\ range_result.end = ChildRange(2).start

\* the position of the last DynamicIndex of p, 0 when p has none
LastDynamic(p) ==
    IF DynamicPositions(p) = {} THEN 0
    ELSE CHOOSE n \in DynamicPositions(p) : \A m \in DynamicPositions(p) : m <= n

\* C28 as stated: every path a successful path_star returns resolves with
\* bit_range against the same Kind.
C28_ReturnedPathsValid ==
    StarResolved =>
        \A j \in DOMAIN star_result.paths : bit_range(kind, star_result.paths[j]).ok

\* C28, amended: every path a successful path_star returns resolves with
\* bit_range up to and including the position of the last DynamicIndex of the
\* input; a path without DynamicIndex is returned as it is.
C28_ValidUpToLastDynamic ==
    StarResolved =>
        /\ \A j \in DOMAIN star_result.paths :
              bit_range(kind, SubSeq(star_result.paths[j], 1, LastDynamic(path))).ok
        /\ ~any_dynamic(path) => star_result.paths = <<path>>

\* a DynamicIndex into an array of two, followed by an element that does not
\* resolve against the array's element Kind
C28_Witness ==
    /\ StarResolved
    /\ Len(path) = 2
    /\ LastDynamic(path) = 1
    /\ Len(star_result.paths) = 2
    /\ bit_range(kind, <<star_result.paths[2][1]>>).ok
    /\ ~bit_range(kind, star_result.paths[2]).ok

\* the part-select [msb:lsb] names exactly the bits of the range r
Selects(sel, r) == r.ok /\ sel.lsb = r.start /\ sel.msb + 1 = r.end

\* C30: in the module text written for a circuit with at least one output
\* bit and one next-state bit, o is bound to the bits of od that bit_range
\* gives for index 0 of the tuple (output, d), d to those it gives for index
\* 1, and both lie inside the declared od.
C30_SplitWithoutLoss ==
    (/\ verilog.written
     /\ bits(circuit.o) >= 1
     /\ bits(circuit.d) >= 1) =>
        /\ Selects(verilog.o_bind, bit_range(update_output_kind(circuit), <<Index(0)>>))
        /\ Selects(verilog.d_bind, bit_range(update_output_kind(circuit), <<Index(1)>>))
        /\ verilog.o_bind.msb - verilog.o_bind.lsb + 1 = bits(circuit.o)
        /\ verilog.d_bind.msb - verilog.d_bind.lsb + 1 = bits(circuit.d)
        /\ verilog.d_bind.msb <= verilog.od_decl.msb


====
